---- MODULE Spec2Model ----
(***************************************************************************)
(* Model of Front_end_basics/script.js: the Black-Scholes calculator, the  *)
(* geocode / weather requests of runAll and the climate-risk dashboard.    *)
(*                                                                         *)
(* Numbers.  JavaScript numbers are IEEE-754 doubles.  A double is modelled*)
(* as a record [k, n, z]: k is its class ("nan", "inf", "fin"), n is the   *)
(* sign of an infinity or the value of a finite number in thousandths, and *)
(* z is the sign of a zero.  log, exp and sqrt are fixed-point             *)
(* approximations that are exact on the sign and on the special values.    *)
(*                                                                         *)
(* Text.  Strings are ASCII: the source's ellipsis is written "...", its   *)
(* degree sign "deg", its dash "-".                                        *)
(***************************************************************************)
EXTENDS Integers, Sequences, FiniteSets, TLC

(***************************************************************************)
(* IEEE-754 doubles                                                        *)
(***************************************************************************)
NaN == [k |-> "nan", n |-> 0, z |-> 1]

Inf(s) == [k |-> "inf", n |-> s, z |-> 1]

Zero(s) == [k |-> "fin", n |-> 0, z |-> IF s < 0 THEN -1 ELSE 1]

Fin(m) == [k |-> "fin", n |-> m, z |-> 1]

Abs(i) == IF i < 0 THEN -i ELSE i

Sgn(a) == IF a.n > 0 THEN 1 ELSE IF a.n < 0 THEN -1 ELSE a.z

IsZero(a) == a.k = "fin" /\ a.n = 0

\* a finite value of magnitude m (thousandths) and sign s
Signed(s, m) == IF m = 0 THEN Zero(s) ELSE Fin(s * m)

FNeg(a) ==
  CASE a.k = "nan" -> NaN
    [] a.k = "inf" -> Inf(-a.n)
    [] OTHER       -> Signed(-Sgn(a), Abs(a.n))

FAbs(a) ==
  CASE a.k = "nan" -> NaN
    [] a.k = "inf" -> Inf(1)
    [] OTHER       -> Signed(1, Abs(a.n))

FAdd(a, b) ==
  CASE a.k = "nan" \/ b.k = "nan"     -> NaN
    [] a.k = "inf" /\ b.k = "inf"     -> IF a.n = b.n THEN a ELSE NaN
    [] a.k = "inf"                    -> a
    [] b.k = "inf"                    -> b
    [] a.n + b.n # 0                  -> Fin(a.n + b.n)
    [] OTHER -> IF IsZero(a) /\ IsZero(b) /\ a.z = -1 /\ b.z = -1
                THEN Zero(-1) ELSE Zero(1)

FSub(a, b) == FAdd(a, FNeg(b))

FMul(a, b) ==
  CASE a.k = "nan" \/ b.k = "nan" -> NaN
    [] a.k = "inf" \/ b.k = "inf" ->
         IF IsZero(a) \/ IsZero(b) THEN NaN ELSE Inf(Sgn(a) * Sgn(b))
    [] OTHER -> Signed(Sgn(a) * Sgn(b), (Abs(a.n) * Abs(b.n) + 500) \div 1000)

FDiv(a, b) ==
  CASE a.k = "nan" \/ b.k = "nan" -> NaN
    [] a.k = "inf" -> IF b.k = "inf" THEN NaN ELSE Inf(Sgn(a) * Sgn(b))
    [] b.k = "inf" -> Zero(Sgn(a) * Sgn(b))
    [] IsZero(b)   -> IF IsZero(a) THEN NaN ELSE Inf(Sgn(a) * Sgn(b))
    [] OTHER -> Signed(Sgn(a) * Sgn(b),
                       (Abs(a.n) * 1000 + Abs(b.n) \div 2) \div Abs(b.n))

\* x >= 0 in JavaScript: false for NaN, true for both zeros
FGeZero(a) == a.k # "nan" /\ (IsZero(a) \/ Sgn(a) > 0)

RECURSIVE SqrtIter(_, _)
SqrtIter(m, x) ==
  LET y == (x + m \div x) \div 2 IN IF y >= x THEN x ELSE SqrtIter(m, y)

ISqrt(m) == IF m = 0 THEN 0 ELSE SqrtIter(m, m)

\* Math.sqrt
FSqrt(a) ==
  CASE a.k = "nan"  -> NaN
    [] a.k = "inf"  -> IF a.n > 0 THEN a ELSE NaN
    [] IsZero(a)    -> a
    [] a.n < 0      -> NaN
    [] OTHER        -> Fin(ISqrt(a.n * 1000))

\* ln of m thousandths, m > 0: the Pade approximant 2(x-1)/(x+1), whose sign
\* and zero are those of ln
LnMilli(m) ==
  LET num == 2000 * (m - 1000) IN
  IF num >= 0 THEN (num + (m + 1000) \div 2) \div (m + 1000)
  ELSE -((-num + (m + 1000) \div 2) \div (m + 1000))

\* Math.log
FLog(a) ==
  CASE a.k = "nan"  -> NaN
    [] a.k = "inf"  -> IF a.n > 0 THEN a ELSE NaN
    [] IsZero(a)    -> Inf(-1)
    [] a.n < 0      -> NaN
    [] OTHER        -> LET l == LnMilli(a.n)
                       IN Signed(IF l < 0 THEN -1 ELSE 1, Abs(l))

\* e^(m/1000) in thousandths: Taylor's series near 0, squaring elsewhere
RECURSIVE ExpMilli(_)
ExpMilli(m) ==
  IF Abs(m) <= 125
  THEN 1000 + m + (m * m) \div 2000 + (m * m * m) \div 6000000
  ELSE LET h == ExpMilli(m \div 2)
           r == ExpMilli(m - 2 * (m \div 2))
       IN (((h * h) \div 1000) * r) \div 1000

\* Math.exp; beyond +-20 the fixed-point value saturates
FExp(a) ==
  CASE a.k = "nan"  -> NaN
    [] a.k = "inf"  -> IF a.n > 0 THEN a ELSE Zero(1)
    [] a.n < -20000 -> Zero(1)
    [] a.n > 20000  -> Inf(1)
    [] OTHER        -> Signed(1, ExpMilli(a.n))

(***************************************************************************)
(* Black-Scholes                                                           *)
(***************************************************************************)
\* K**p for p in 1..5
RECURSIVE FPow(_, _)
FPow(a, p) == IF p = 1 THEN a ELSE FMul(a, FPow(a, p - 1))

CND(x) ==
  LET L  == FAbs(x)
      K  == FDiv(Fin(1000), FAdd(Fin(1000), FMul(Fin(232), L)))
      poly == FAdd(FAdd(FAdd(FAdd(FMul(Fin(319), K),
                                  FMul(Fin(-357), FPow(K, 2))),
                             FMul(Fin(1781), FPow(K, 3))),
                        FMul(Fin(-1821), FPow(K, 4))),
                   FMul(Fin(1330), FPow(K, 5)))
      e  == FExp(FDiv(FMul(FNeg(L), L), Fin(2000)))
      w  == FSub(Fin(1000), FMul(FMul(Fin(399), e), poly))
  IN IF FGeZero(x) THEN w ELSE FSub(Fin(1000), w)

calcBS(S, K, T, r, v) ==
  LET sq  == FSqrt(T)
      d1  == FDiv(FAdd(FLog(FDiv(S, K)),
                       FMul(FAdd(r, FDiv(FMul(v, v), Fin(2000))), T)),
                  FMul(v, sq))
      d2  == FSub(d1, FMul(v, sq))
      dsc == FMul(K, FExp(FMul(FNeg(r), T)))
  IN [call |-> FSub(FMul(S, CND(d1)), FMul(dsc, CND(d2))),
      put  |-> FSub(FMul(dsc, CND(FNeg(d2))), FMul(S, CND(FNeg(d1))))]

\* two decimal digits of c hundredths, c >= 0
Dec2(c) ==
  ToString(c \div 100) \o "." \o ToString((c % 100) \div 10) \o ToString(c % 10)

\* Number.prototype.toFixed(2)
toFixed2(a) ==
  CASE a.k = "nan" -> "NaN"
    [] a.k = "inf" -> IF a.n > 0 THEN "Infinity" ELSE "-Infinity"
    [] OTHER -> LET c == (Abs(a.n) + 5) \div 10
                IN (IF a.n < 0 THEN "-" ELSE "") \o Dec2(c)

\* parseFloat on the texts a field is given in this model
parseFloat(t) ==
  CASE t = "100"   -> Fin(100000)
    [] t = "120"   -> Fin(120000)
    [] t = "-100"  -> Fin(-100000)
    [] t = "1"     -> Fin(1000)
    [] t = "-1"    -> Fin(-1000)
    [] t = "0"     -> Zero(1)
    [] t = "0.05"  -> Fin(50)
    [] t = "-0.05" -> Fin(-50)
    [] t = "0.2"   -> Fin(200)
    [] t = "-0.2"  -> Fin(-200)
    [] t = "25.77" -> Fin(25770)
    [] t = "-80.19" -> Fin(-80190)
    [] t = "48.85" -> Fin(48850)
    [] t = "2.35"  -> Fin(2350)
    [] OTHER       -> NaN

isNaN(a) == a.k = "nan"

(***************************************************************************)
(* Climate risk scoring.  An observation field is <<>> when the response   *)
(* leaves it out (null or undefined) and <<q>> otherwise.  Wind, gust,      *)
(* temperature, pressure and soil temperature are in tenths of their unit, *)
(* precipitation in hundredths of an inch, cloud cover in percent; the     *)
(* arithmetic is exact rational arithmetic on these.                       *)
(***************************************************************************)
Min(a, b) == IF a < b THEN a ELSE b

Max(a, b) == IF a > b THEN a ELSE b

\* x ?? d
Coalesce(x, d) == IF x = <<>> THEN d ELSE x[1]

\* a rounding that truncates downwards instead
jsRoundDown(num, den) == num \div den

\* Math.round(num / den), den > 0: floor(num/den + 1/2)
jsRound(num, den) == (2 * num + den) \div (2 * den)

computeScores(data) ==
  LET c        == data.current
      wind     == Coalesce(c.wind_speed_10m, 0)
      gust     == Coalesce(c.wind_gusts_10m, 0)
      precip   == Coalesce(c.precipitation, 0)
      temp     == Coalesce(c.temperature_2m, 600)
      pressure == Coalesce(c.surface_pressure, 10130)
      soil     == Coalesce(c.soil_temperature_6cm, 550)
      cloud    == Coalesce(c.cloud_cover, 50)
      \* wScore = wN / 74, gScore = gN / 90, pScore = pN
      wN == Min(7400, wind * 10)
      gN == Min(9000, gust * 10)
      pN == Min(100, precip)
      weatherRisk == jsRound(35 * wN * 90 + 35 * gN * 74 + 30 * pN * 6660,
                             100 * 6660)
      \* min(100, tempDev / 45 * 100) = cN / 45
      cN == Min(4500, Abs(temp - 650) * 10)
      carbonRisk == jsRound(cN, 45)
      \* soilOpt = sN / 3
      sN == IF soil >= 500 /\ soil <= 750 THEN 0
            ELSE Min(300, Abs(soil - 625) - 125)
      cloudStress == IF cloud > 90 THEN 25 ELSE IF cloud < 15 THEN 20 ELSE 0
      agriRisk == jsRound(Min(100 * 300, sN * 65 + cloudStress * 300 + pN * 45),
                          300)
      \* pressScore = prN / 3
      pressureDrop == Max(0, 10130 - pressure)
      prN == Min(300, pressureDrop)
      seaRisk == jsRound(Min(100 * 22200,
                             prN * 45 * 74 + wN * 35 * 3 + pN * 20 * 222),
                         22200)
      composite == jsRound(weatherRisk + carbonRisk + agriRisk + seaRisk, 4)
  IN [weatherRisk |-> weatherRisk, carbonRisk |-> carbonRisk,
      agriRisk |-> agriRisk, seaRisk |-> seaRisk, composite |-> composite,
      raw |-> [wind |-> wind, gust |-> gust, precip |-> precip, temp |-> temp,
               pressure |-> pressure, soil |-> soil, cloud |-> cloud]]

(***************************************************************************)
(* UI helpers                                                              *)
(***************************************************************************)
badgeHTML(score) ==
  IF score < 35 THEN "<span class=\"status-badge badge-low\">Low</span>"
  ELSE IF score < 65
       THEN "<span class=\"status-badge badge-mod\">Moderate</span>"
       ELSE "<span class=\"status-badge badge-high\">High</span>"

\* the card a call of setScore leaves
setScore(score) ==
  [score |-> ToString(score), fill |-> ToString(score) \o "%",
   badge |-> badgeHTML(score)]

messages ==
  << <<0, 25, "Minimal Climate Stress", "#3dffa0",
       "Benign atmospheric conditions - minimal disruption risk across all four climate dimensions.">>,
     <<25, 45, "Low-to-Moderate Risk", "#3dffa0",
       "Mild weather anomalies detected. Climate-sensitive sectors may see minor volatility impact.">>,
     <<45, 65, "Elevated Climate Exposure", "#f5c518",
       "Meaningful atmospheric stress across multiple dimensions. Relevant for energy, agriculture & insurance sectors.">>,
     <<65, 80, "High Climate Risk", "#f5c518",
       "Significant weather events or anomalies present. Option pricing in climate-sensitive stocks may need adjustment.">>,
     <<80, 101, "Extreme Climate Conditions", "#ff4d4d",
       "Severe atmospheric readings. High potential for supply disruption, physical asset damage & volatility spikes.">> >>

\* the entries of messages whose band holds the score
Bands(score) ==
  {i \in DOMAIN messages : score >= messages[i][1] /\ score < messages[i][2]}

\* the composite panel after setComposite(score), from the panel cur
setComposite(cur, score) ==
  LET color == IF score < 35 THEN "#3dffa0"
               ELSE IF score < 65 THEN "#f5c518" ELSE "#ff4d4d"
      ring  == [cur EXCEPT !.ring = ToString(score),
                           !.borderColor = color, !.color = color]
      hit   == Bands(score)
  IN IF hit = {} THEN ring
     ELSE LET m == messages[CHOOSE i \in hit : \A j \in hit : i <= j]
          IN [ring EXCEPT !.verdict = m[3], !.verdictColor = m[4],
                          !.sub = m[5]]

\* Number.prototype.toFixed(1) of t tenths
toFixed1(t) ==
  (IF t < 0 THEN "-" ELSE "") \o ToString(Abs(t) \div 10) \o "."
    \o ToString(Abs(t) % 10)

\* toFixed(2) of h hundredths
toFixedH(h) == (IF h < 0 THEN "-" ELSE "") \o Dec2(Abs(h))

\* the seven raw reading tiles runAll writes
rawTiles(raw) ==
  LET pDrop == 10130 - raw.pressure IN
  [temp |-> [cls |-> "dv" \o (IF raw.temp > 900 THEN " hi"
                               ELSE IF raw.temp < 320 THEN " lo" ELSE ""),
             text |-> toFixed1(raw.temp) \o "degF"],
   wind |-> [cls |-> "dv" \o (IF raw.wind >= 500 THEN " hi"
                               ELSE IF raw.wind < 50 THEN " lo" ELSE ""),
             text |-> toFixed1(raw.wind) \o " mph"],
   gust |-> [cls |-> "dv" \o (IF raw.gust >= 650 THEN " hi" ELSE ""),
             text |-> toFixed1(raw.gust) \o " mph"],
   precip |-> [cls |-> "dv" \o (IF raw.precip > 50 THEN " hi"
                                 ELSE IF raw.precip = 0 THEN " lo" ELSE ""),
               text |-> toFixedH(raw.precip) \o " in/hr"],
   pressure |-> [cls |-> "dv" \o (IF pDrop > 150 THEN " hi"
                                   ELSE IF pDrop < -50 THEN " lo" ELSE ""),
                 text |-> toFixed1(raw.pressure) \o " hPa"],
   soil |-> [cls |-> "dv" \o (IF raw.soil > 800 THEN " hi"
                               ELSE IF raw.soil < 350 THEN " lo" ELSE ""),
             text |-> toFixed1(raw.soil) \o "degF"],
   cloud |-> [cls |-> "dv", text |-> ToString(raw.cloud) \o "%"]]

(***************************************************************************)
(* State                                                                   *)
(***************************************************************************)
VARIABLES
  form,     \* the input fields' values: stock, strike, time, rate, vol, location
  dom,      \* what the page shows: loc, cards, comp, tiles, bs
  runs,     \* the runAll invocations that passed their checks, in start order
  handler   \* where the running event handler stands; "idle" when none runs

vars == <<form, dom, runs, handler>>

\* the most runAll invocations that start requests
MaxRuns == 2

CardKeys == {"weather", "carbon", "agri", "sea"}

TileKeys == {"temp", "wind", "gust", "precip", "pressure", "soil", "cloud"}

\* a location check that forgets to trim
trimNothing(s) == s

\* String.prototype.trim on the location texts of this model
trim(s) ==
  CASE s = "   "     -> ""
    [] s = " Paris " -> "Paris"
    [] OTHER         -> s

\* the comma-separated parts p: p.slice(0, 2).join(', ')
JoinFirstTwo(p) ==
  IF Len(p) = 0 THEN ""
  ELSE IF Len(p) = 1 THEN p[1] ELSE p[1] \o ", " \o p[2]

\* the value geocode returns for a non-empty result list
geocode(data) ==
  [lat     |-> parseFloat(data[1].lat),
   lon     |-> parseFloat(data[1].lon),
   display |-> JoinFirstTwo(data[1].display_name)]

\* a request with the coordinates exchanged
fetchClimateSwapped(lat, lon) == [latitude |-> lon, longitude |-> lat]

\* the coordinates fetchClimate puts in the request's URL
fetchClimate(lat, lon) == [latitude |-> lat, longitude |-> lon]

\* the option panel and the verdict of calculate on the fields f
calculate(f, bs) ==
  LET S == parseFloat(f.stock)
      K == parseFloat(f.strike)
      T == parseFloat(f.time)
      r == parseFloat(f.rate)
      v == parseFloat(f.vol)
  IN IF \E a \in {S, K, T, r, v} : isNaN(a)
     THEN [ok |-> FALSE, bs |-> bs]
     ELSE LET p == calcBS(S, K, T, r, v)
          IN [ok |-> TRUE,
              bs |-> [call |-> "$" \o toFixed2(p.call),
                      put  |-> "$" \o toFixed2(p.put)]]

\* a reset that also blanks the raw tiles
resetDashboardAndTiles(d) ==
  [d EXCEPT
     !.loc   = [dot |-> "dot", text |-> "Fetching climate data...", sub |-> ""],
     !.cards = [k \in CardKeys |-> [score |-> "...", fill |-> "0%", badge |-> ""]],
     !.comp  = [ring |-> "...", borderColor |-> "var(--border)",
                color |-> "var(--muted)", verdict |-> "Loading...",
                verdictColor |-> "var(--muted)", sub |-> ""],
     !.tiles = [k \in TileKeys |-> [cls |-> "dv", text |-> "..."]]]

\* a reset that leaves the location dot as it was
resetDashboardKeepsDot(d) ==
  [d EXCEPT
     !.loc.text = "Fetching climate data...", !.loc.sub = "",
     !.cards = [k \in CardKeys |-> [score |-> "...", fill |-> "0%", badge |-> ""]],
     !.comp  = [ring |-> "...", borderColor |-> "var(--border)",
                color |-> "var(--muted)", verdict |-> "Loading...",
                verdictColor |-> "var(--muted)", sub |-> ""]]

resetDashboard(d) ==
  [d EXCEPT
     !.loc   = [dot |-> "dot", text |-> "Fetching climate data...", sub |-> ""],
     !.cards = [k \in CardKeys |-> [score |-> "...", fill |-> "0%", badge |-> ""]],
     !.comp  = [ring |-> "...", borderColor |-> "var(--border)",
                color |-> "var(--muted)", verdict |-> "Loading...",
                verdictColor |-> "var(--muted)", sub |-> ""]]

\* the try block of runAll after both awaits: the page for geo and the scores s
showResult(d, geo, s) ==
  [d EXCEPT
     !.loc   = [dot |-> "dot live", text |-> geo.display, sub |-> "Updated hh:mm"],
     !.cards = [weather |-> setScore(s.weatherRisk),
                carbon  |-> setScore(s.carbonRisk),
                agri    |-> setScore(s.agriRisk),
                sea     |-> setScore(s.seaRisk)],
     !.comp  = setComposite(d.comp, s.composite),
     !.tiles = rawTiles(s.raw)]

\* a catch block that leaves the location dot as it was
catchErrorKeepsDot(d, msg) == [d EXCEPT !.loc.text = "Error: " \o msg]

\* the catch block of runAll
catchError(d, msg) ==
  [d EXCEPT !.loc.dot = "dot", !.loc.text = "Error: " \o msg]

\* the fields loadSamples fills in
Samples ==
  [stock |-> "100", strike |-> "100", time |-> "1", rate |-> "0.05",
   vol |-> "0.2", location |-> "Miami, FL"]

BlankForm ==
  [stock |-> "", strike |-> "", time |-> "", rate |-> "", vol |-> "",
   location |-> ""]

\* the page before any handler has run; its markup is not part of the script
InitDom ==
  [loc   |-> [dot |-> "dot", text |-> "", sub |-> ""],
   cards |-> [k \in CardKeys |-> [score |-> "", fill |-> "", badge |-> ""]],
   comp  |-> [ring |-> "", borderColor |-> "", color |-> "", verdict |-> "",
              verdictColor |-> "", sub |-> ""],
   tiles |-> [k \in TileKeys |-> [cls |-> "", text |-> ""]],
   bs    |-> [call |-> "", put |-> ""]]

Init ==
  /\ form = BlankForm
  /\ dom = InitDom
  /\ runs = <<>>
  /\ handler = "idle"

(***************************************************************************)
(* The environment: what the user types and what the services answer       *)
(***************************************************************************)
LocationTexts == {"   ", " Paris "}

OptionTexts ==
  {[stock |-> "", strike |-> "", time |-> "", rate |-> "", vol |-> ""]}

\* Nominatim result lists (limit=1); display_name is given by its parts
GeoResults ==
  { << [lat |-> "25.77", lon |-> "-80.19",
        display_name |-> <<"Miami", " Miami-Dade County", " Florida">>] >>,
    << [lat |-> "48.85", lon |-> "2.35",
        display_name |-> <<"Paris", " Ile-de-France", " France">>] >> }

Obs(w, g, p, t, pr, s, c) ==
  [current |-> [wind_speed_10m |-> w, wind_gusts_10m |-> g,
                precipitation |-> p, temperature_2m |-> t,
                surface_pressure |-> pr, soil_temperature_6cm |-> s,
                cloud_cover |-> c]]

\* Open-Meteo answers in the page's runs
Observations ==
  { Obs(<<62>>, <<110>>, <<0>>, <<784>>, <<10152>>, <<771>>, <<20>>),
    Obs(<<800>>, <<950>>, <<60>>, <<1100>>, <<9830>>, <<1000>>, <<95>>) }

(***************************************************************************)
(* Actions                                                                 *)
(***************************************************************************)
\* the location field gets a new value: the user types it, or geoLocate
\* fills it in
EditLocation(l) ==
  /\ handler = "idle"
  /\ form' = [form EXCEPT !.location = l]
  /\ UNCHANGED <<dom, runs, handler>>

\* the user edits the five option fields
EditOptions(o) ==
  /\ handler = "idle"
  /\ form' = [stock |-> o.stock, strike |-> o.strike, time |-> o.time,
              rate |-> o.rate, vol |-> o.vol, location |-> form.location]
  /\ UNCHANGED <<dom, runs, handler>>

\* the handler stands in the alert of calculate
FieldsAlert == "alert: Please fill all option parameter fields."

\* the handler stands in the alert of runAll
LocationAlert == "alert: Please enter a city or region for climate data."

\* runAll up to resetDashboard, on the fields f: calculate, then the location
\* check; an alert blocks the handler until it is dismissed
runAllChecks(f) ==
  LET c == calculate(f, dom.bs) IN
  /\ dom' = [dom EXCEPT !.bs = c.bs]
  /\ handler' = IF ~c.ok THEN FieldsAlert
                ELSE IF trim(f.location) = "" THEN LocationAlert ELSE "reset"
  /\ UNCHANGED runs

\* a click on the button that calls runAll
RunAll ==
  /\ handler = "idle"
  /\ Len(runs) < MaxRuns
  /\ runAllChecks(form)
  /\ UNCHANGED form

loadSamples ==
  /\ handler = "idle"
  /\ Len(runs) < MaxRuns
  /\ form' = Samples
  /\ runAllChecks(form')

\* the user dismisses the alert; calculate or runAll returns
DismissAlert ==
  /\ handler \notin {"idle", "reset"}
  /\ handler' = "idle"
  /\ UNCHANGED <<form, dom, runs>>

\* runAll from resetDashboard to its first await: the geocoding request.
\* concurrent records whether an earlier invocation was awaiting a response
\* when this one started.
ResetAndGeocode ==
  /\ handler = "reset"
  /\ dom' = resetDashboard(dom)
  /\ runs' = Append(runs, [pc |-> "geocode", query |-> trim(form.location),
                           geoReqs |-> 1, wxReqs |-> 0,
                           concurrent |-> \E q \in DOMAIN runs :
                                             runs[q].pc \in {"geocode", "climate"},
                           geo |-> <<>>, req |-> <<>>, scores |-> <<>>,
                           msg |-> ""])
  /\ handler' = "idle"
  /\ UNCHANGED form

\* run r fails: the catch block
Fail(r, msg) ==
  /\ runs' = [runs EXCEPT ![r] = [@ EXCEPT !.pc = "error", !.msg = msg]]
  /\ dom' = catchError(dom, msg)
  /\ UNCHANGED <<form, handler>>

\* the geocoding response of run r holds a result: the weather request
GeocodeOk(r, data) ==
  /\ handler = "idle"
  /\ r \in DOMAIN runs /\ runs[r].pc = "geocode"
  /\ LET geo == geocode(data) IN
     runs' = [runs EXCEPT ![r] =
                [@ EXCEPT !.pc = "climate", !.geo = <<geo>>,
                          !.req = <<fetchClimate(geo.lat, geo.lon)>>,
                          !.wxReqs = @ + 1]]
  /\ UNCHANGED <<form, dom, handler>>

\* the geocoding response of run r is the empty list
GeocodeEmpty(r) ==
  /\ handler = "idle"
  /\ r \in DOMAIN runs /\ runs[r].pc = "geocode"
  /\ Fail(r, "Location not found. Try a different city name.")

\* the geocoding request of run r fails
GeocodeError(r) ==
  /\ handler = "idle"
  /\ r \in DOMAIN runs /\ runs[r].pc = "geocode"
  /\ Fail(r, "Failed to fetch")

\* the weather response of run r is ok and holds data
ClimateOk(r, data) ==
  /\ handler = "idle"
  /\ r \in DOMAIN runs /\ runs[r].pc = "climate"
  /\ LET s == computeScores(data) IN
     /\ runs' = [runs EXCEPT ![r] = [@ EXCEPT !.pc = "done", !.scores = <<s>>]]
     /\ dom' = showResult(dom, runs[r].geo[1], s)
  /\ UNCHANGED <<form, handler>>

\* the weather response of run r is not ok
ClimateNotOk(r) ==
  /\ handler = "idle"
  /\ r \in DOMAIN runs /\ runs[r].pc = "climate"
  /\ Fail(r, "Climate API error")

\* the weather request of run r fails
ClimateError(r) ==
  /\ handler = "idle"
  /\ r \in DOMAIN runs /\ runs[r].pc = "climate"
  /\ Fail(r, "Failed to fetch")

Next ==
  \/ \E l \in LocationTexts : EditLocation(l)
  \/ \E o \in OptionTexts : EditOptions(o)
  \/ RunAll
  \/ loadSamples
  \/ DismissAlert
  \/ ResetAndGeocode
  \/ \E r \in 1..MaxRuns, data \in GeoResults : GeocodeOk(r, data)
  \/ \E r \in 1..MaxRuns : GeocodeEmpty(r)
  \/ \E r \in 1..MaxRuns : GeocodeError(r)
  \/ \E r \in 1..MaxRuns, data \in Observations : ClimateOk(r, data)
  \/ \E r \in 1..MaxRuns : ClimateNotOk(r)
  \/ \E r \in 1..MaxRuns : ClimateError(r)

Spec == Init /\ [][Next]_vars

(***************************************************************************)
(* calculate on every combination of field texts: the page with the fields *)
(* filled in and the location left empty, and the button clicked           *)
(***************************************************************************)
PriceTexts == {"", "abc", "-100", "0", "100", "120"}

TimeTexts == {"", "-1", "0", "1"}

RateTexts == {"", "-0.05", "0", "0.05"}

VolTexts == {"", "-0.2", "0", "0.2"}

InitBS ==
  /\ form \in {[stock |-> s, strike |-> k, time |-> t, rate |-> r, vol |-> v,
                location |-> ""] :
                 s \in PriceTexts, k \in PriceTexts, t \in TimeTexts,
                 r \in RateTexts, v \in VolTexts}
  /\ dom = InitDom
  /\ runs = <<>>
  /\ handler = "idle"

NextBS == RunAll \/ DismissAlert

SpecBS == InitBS /\ [][NextBS]_vars

(***************************************************************************)
(* computeScores on a wide set of observations: one run, started by        *)
(* loadSamples, whose geocoding has answered and whose weather request is  *)
(* in flight                                                               *)
(***************************************************************************)
WideObservations ==
  { Obs(w, g, p, t, pr, s, c) :
      w  \in {<<>>, <<-740>>, <<0>>, <<370>>, <<800>>},
      g  \in {<<>>, <<-900>>, <<450>>, <<950>>},
      p  \in {<<>>, <<-50>>, <<0>>, <<7>>, <<60>>, <<150>>},
      t  \in {<<>>, <<-400>>, <<200>>, <<650>>, <<1100>>},
      pr \in {<<>>, <<9830>>, <<10000>>, <<10200>>},
      s  \in {<<>>, <<-100>>, <<400>>, <<600>>, <<1000>>},
      c  \in {<<>>, <<10>>, <<50>>, <<95>>} }

InitScores ==
  LET geo == geocode(CHOOSE d \in GeoResults : d[1].lat = "25.77") IN
  /\ form = Samples
  /\ dom = resetDashboard([InitDom EXCEPT !.bs = calculate(Samples, InitDom.bs).bs])
  /\ runs = << [pc |-> "climate", query |-> trim(Samples.location),
                geoReqs |-> 1, wxReqs |-> 1, concurrent |-> FALSE,
                geo |-> <<geo>>, req |-> <<fetchClimate(geo.lat, geo.lon)>>,
                scores |-> <<>>, msg |-> ""] >>
  /\ handler = "idle"

NextScores ==
  /\ runs[1].pc = "climate"
  /\ \E data \in WideObservations : ClimateOk(1, data)

SpecScores == InitScores /\ [][NextScores]_vars
(***************************************************************************)
(* Properties                                                              *)
(***************************************************************************)
InFlight(r) == runs[r].pc \in {"geocode", "climate"}

ScoreList(s) == <<s.weatherRisk, s.carbonRisk, s.agriRisk, s.seaRisk>>

\* the page shows the result of the finished run r in every part
Shows(r) ==
  LET s == runs[r].scores[1] IN
  /\ dom.loc.dot = "dot live"
  /\ dom.loc.text = runs[r].geo[1].display
  /\ dom.cards.weather.score = ToString(s.weatherRisk)
  /\ dom.cards.carbon.score = ToString(s.carbonRisk)
  /\ dom.cards.agri.score = ToString(s.agriRisk)
  /\ dom.cards.sea.score = ToString(s.seaRisk)
  /\ dom.comp.ring = ToString(s.composite)
  /\ dom.tiles = rawTiles(s.raw)

\* C1: every score computeScores returns, for every observation (negative
\* readings included), is an integer in 0..100.
C1_ScoresInRange ==
  \A r \in DOMAIN runs :
    runs[r].scores # <<>> =>
      LET s == runs[r].scores[1] IN
      /\ \A i \in 1..4 : ScoreList(s)[i] \in 0..100
      /\ s.composite \in 0..100

\* C2: a run issues at most one geocoding and at most one weather request;
\* the weather request is issued only once the geocoding has answered with a
\* result, and carries that result's coordinates.
C2_SequentialRequests ==
  \A r \in DOMAIN runs :
    /\ runs[r].geoReqs <= 1
    /\ runs[r].wxReqs <= 1
    /\ runs[r].pc = "geocode" => runs[r].wxReqs = 0 /\ runs[r].req = <<>>
    /\ runs[r].wxReqs = 1 =>
         /\ runs[r].geoReqs = 1
         /\ runs[r].geo # <<>>
         /\ runs[r].req = << [latitude  |-> runs[r].geo[1].lat,
                              longitude |-> runs[r].geo[1].lon] >>

C2_Witness ==
  \E r \in DOMAIN runs :
    /\ runs[r].pc = "climate" /\ runs[r].wxReqs = 1
    /\ runs[r].geo[1].lat = Fin(48850)

\* the option fields that are not numbers, and those that are not positive
NotANumber(t) == t \in {"", "abc"}

NotPositive(t) == t \in {"0", "-1", "-100", "-0.2"}

InvalidOptions(f) ==
  \/ \E t \in {f.stock, f.strike, f.time, f.rate, f.vol} : NotANumber(t)
  \/ \E t \in {f.stock, f.strike, f.time, f.vol} : NotPositive(t)

FiniteMoney(t) == t \notin {"$NaN", "$Infinity", "$-Infinity"}

\* C3: for invalid option inputs (a field that is no number, or a time,
\* volatility, stock price or strike that is not positive) calculate returns
\* false and writes nothing to the call and put displays; when it returns
\* true the displayed prices are finite.
C3_InvalidRejected ==
  /\ InvalidOptions(form) => dom.bs = InitDom.bs /\ handler # LocationAlert
  /\ handler = LocationAlert =>
       FiniteMoney(dom.bs.call) /\ FiniteMoney(dom.bs.put)

\* C4: runAll goes on to resetDashboard and the requests only when calculate
\* returned true and the trimmed location is not empty; when a check fails
\* it returns with no request issued and with the location bar, the cards,
\* the composite and the raw tiles unchanged.
C4_ChecksGuardReset ==
  [][ /\ (handler = "idle" /\ handler' = "reset") =>
           /\ calculate(form', dom.bs).ok
           /\ form'.location \notin {"", "   "}
      /\ (handler' \in {FieldsAlert, LocationAlert}
            \/ handler \in {FieldsAlert, LocationAlert}) =>
           /\ runs' = runs
           /\ dom'.loc = dom.loc /\ dom'.cards = dom.cards
           /\ dom'.comp = dom.comp /\ dom'.tiles = dom.tiles
      /\ (handler' = FieldsAlert => ~calculate(form', dom.bs).ok)
      /\ (handler' = LocationAlert /\ handler = "idle" =>
            form'.location \in {"", "   "})
      /\ Len(runs') > Len(runs) => handler = "reset"
    ]_vars

C4_Witness ==
  /\ handler = LocationAlert
  /\ form.location = "   "
  /\ dom.loc.dot = "dot live"
  /\ \E r \in DOMAIN runs : InFlight(r) \/ runs[r].pc = "done"

\* C5: the composite is the mean of the four scores rounded to the nearest
\* integer, and lies between the smallest and the largest of them.
C5_CompositeIsMean ==
  \A r \in DOMAIN runs :
    runs[r].scores # <<>> =>
      LET s   == runs[r].scores[1]
          l   == ScoreList(s)
          sum == l[1] + l[2] + l[3] + l[4]
      IN /\ Abs(4 * s.composite - sum) <= 2
         /\ \E i \in 1..4 : l[i] <= s.composite
         /\ \E i \in 1..4 : s.composite <= l[i]

C5_Witness ==
  \E r \in DOMAIN runs :
    /\ runs[r].scores # <<>>
    /\ LET s   == runs[r].scores[1]
           l   == ScoreList(s)
           sum == l[1] + l[2] + l[3] + l[4]
       IN /\ sum % 4 = 3
          /\ \A i \in 1..4 : l[i] \in 1..99
          /\ \E i \in 1..4 : l[i] < s.composite

\* C6: when the geocoding or the weather request of a run fails, the step
\* leaves the location text "Error: " and the message, the dot not live, and
\* the cards, the composite and the raw tiles as they were; the cards, the
\* ring and the tiles receive numbers only in the step in which a run
\* finishes with both answers, and a failed run stays failed.
C6_FailureShowsError ==
  [][ /\ \A r \in DOMAIN runs :
           (InFlight(r) /\ runs'[r].pc = "error") =>
             /\ dom'.loc.text = "Error: " \o runs'[r].msg
             /\ runs'[r].msg # ""
             /\ dom'.loc.dot = "dot"
             /\ dom'.cards = dom.cards /\ dom'.comp = dom.comp
             /\ dom'.tiles = dom.tiles
      /\ \A r \in DOMAIN runs : runs[r].pc = "error" => runs'[r] = runs[r]
      /\ (\/ dom'.tiles # dom.tiles
          \/ \E k \in CardKeys : dom'.cards[k].score \notin {dom.cards[k].score, "..."}
          \/ dom'.comp.ring \notin {dom.comp.ring, "..."}) =>
           \E r \in DOMAIN runs : runs[r].pc = "climate" /\ runs'[r].pc = "done"
    ]_vars

C6_Witness ==
  \E r \in DOMAIN runs :
    /\ runs[r].pc = "error"
    /\ runs[r].msg = "Climate API error"
    /\ dom.loc.text = "Error: Climate API error"
    /\ dom.loc.dot = "dot"
    /\ dom.cards.weather.score = "88"

\* C7: resetDashboard puts the location bar, the four cards and the
\* composite in the pending state and leaves the call and put displays and
\* the seven raw tiles as they were.
C7_ResetFrame ==
  [][ handler = "reset" =>
        /\ dom'.loc = [dot |-> "dot", text |-> "Fetching climate data...",
                       sub |-> ""]
        /\ \A k \in CardKeys :
             dom'.cards[k] = [score |-> "...", fill |-> "0%", badge |-> ""]
        /\ dom'.comp.ring = "..." /\ dom'.comp.verdict = "Loading..."
        /\ dom'.comp.sub = ""
        /\ dom'.bs = dom.bs
        /\ dom'.tiles = dom.tiles
    ]_vars

C7_Witness ==
  /\ handler = "idle"
  /\ dom.loc.text = "Fetching climate data..."
  /\ dom.cards.sea.score = "..."
  /\ dom.tiles.temp.text = "110.0degF"
  /\ dom.bs.call # ""

\* C8: every composite computeScores returns falls in exactly one verdict
\* band, so a finished run never leaves the verdict at "Loading...".
C8_VerdictAssigned ==
  \A r \in DOMAIN runs :
    runs[r].pc = "done" =>
      /\ Cardinality(Bands(runs[r].scores[1].composite)) = 1
      /\ dom.comp.verdict # "Loading..."

\* C9: when a run for one location was started while an earlier run for
\* another location was in flight, then once every run has settled the page
\* shows the result of the run started last.
C9_LatestRunWins ==
  LET n == Len(runs) IN
  (/\ n >= 2
   /\ handler = "idle"
   /\ \A r \in DOMAIN runs : ~InFlight(r)
   /\ runs[n].concurrent
   /\ \E a \in 1..(n - 1) : runs[a].query # runs[n].query
   /\ runs[n].pc = "done") => Shows(n)

\* C10: whenever the location dot is live, the location text, the four
\* scores, the ring and the seven raw tiles all come from the answers of one
\* and the same run.
C10_LiveIsOneRun ==
  dom.loc.dot = "dot live" =>
    \E r \in DOMAIN runs : runs[r].pc = "done" /\ Shows(r)

C10_Witness ==
  /\ dom.loc.dot = "dot live"
  /\ Len(runs) = 2
  /\ runs[2].concurrent
  /\ runs[1].pc = "done" /\ runs[2].pc = "done"
  /\ runs[1].geo # runs[2].geo
  /\ runs[1].scores # runs[2].scores
====
